---------------------------- MODULE Spec2Model ----------------------------
(***************************************************************************)
(* A model of the password-based AES-256-GCM token tool.                   *)
(*                                                                         *)
(*   src/1.py    encrypt / decrypt and the token framing                   *)
(*   src/gui.py  Settings (recent-files list) and the CryptoGUI worker     *)
(*               threads started by the encrypt and decrypt buttons        *)
(*                                                                         *)
(* Text is a sequence of Unicode code points, binary data a sequence of    *)
(* bytes 0..255.  UTF-8 and base64 are computed as Python computes them.   *)
(* PBKDF2, AES-GCM and os.urandom belong to the libraries the code calls;  *)
(* they are modelled by small deterministic functions with the same shape  *)
(* (key length, ciphertext length, tag check before release of the         *)
(* plaintext) and os.urandom as a source whose draws never repeat.         *)
(***************************************************************************)
EXTENDS Integers, Sequences, FiniteSets, TLC

VARIABLES
    rng,            \* number of os.urandom draws made so far
    cur,            \* the most recent successful encrypt call (or NoCall)
    prev,           \* the successful encrypt call before it (or NoCall)
    last,           \* outcome of the most recent encrypt / decrypt call
    recent_files,   \* Settings.recent_files
    file,           \* content of .gui_settings.json
    loaded,         \* ghost: recent_files as Settings.load left it
    added,          \* ghost: non-empty paths given to add_recent, newest first
    workers,        \* GUI worker threads
    txt_output,     \* GUI output box: the chunks inserted and not deleted
    lbl_status,     \* GUI status label
    txt_input,      \* GUI input box
    entry_password, \* GUI password entry
    mod,            \* GUI: the crypto module is loaded (self.mod is not None)
    overlap         \* ghost: a worker was started while another was running

vars == <<rng, cur, prev, last, recent_files, file, loaded, added,
          workers, txt_output, lbl_status, txt_input, entry_password, mod,
          overlap>>

cryptoVars == <<rng, cur, prev, last>>
settingsVars == <<recent_files, file, loaded, added>>
guiVars == <<workers, txt_output, lbl_status, txt_input, entry_password, mod,
             overlap>>

---------------------------------------------------------------------------
(* Sizes fixed by the code. *)

SaltLen == 16
NonceLen == 12
TagLen == 16
KeyLen == 32
Iterations == 200000
max_recent == 8

(* Bounds of the model. *)

MaxEncrypts == 2
MaxAdds == 3
MaxWorkers == 2

---------------------------------------------------------------------------
(* Sequence helpers. *)

Take(s, n) == SubSeq(s, 1, IF n < Len(s) THEN n ELSE Len(s))
Drop(s, n) == SubSeq(s, n + 1, Len(s))
Range(s) == {s[i] : i \in 1..Len(s)}

\* sum over k in lo..hi of s[k] * (a*k + b), halving the range
RECURSIVE WSumRange(_, _, _, _, _)
WSumRange(s, a, b, lo, hi) ==
    IF lo > hi THEN 0
    ELSE IF lo = hi THEN s[lo] * (a * lo + b)
    ELSE LET mid == (lo + hi) \div 2
         IN  WSumRange(s, a, b, lo, mid) + WSumRange(s, a, b, mid + 1, hi)

\* sum of s[k] * (a*k + b): the mixing step of the stand-ins for PBKDF2 and GCM
WSum(s, a, b) == WSumRange(s, a, b, 1, Len(s))

---------------------------------------------------------------------------
(* str.encode("utf-8") and bytes.decode("utf-8"), strict error handling. *)

IsSurrogate(cp) == cp >= 55296 /\ cp <= 57343

utf8_char(cp) ==
    IF cp < 128 THEN <<cp>>
    ELSE IF cp < 2048 THEN <<192 + (cp \div 64), 128 + (cp % 64)>>
    ELSE IF cp < 65536
         THEN <<224 + (cp \div 4096), 128 + ((cp \div 64) % 64), 128 + (cp % 64)>>
    ELSE <<240 + (cp \div 262144), 128 + ((cp \div 4096) % 64),
           128 + ((cp \div 64) % 64), 128 + (cp % 64)>>

RECURSIVE utf8_bytes(_)
utf8_bytes(cps) ==
    IF cps = <<>> THEN <<>> ELSE utf8_char(Head(cps)) \o utf8_bytes(Tail(cps))

\* [ok, bytes]: a lone surrogate raises UnicodeEncodeError
utf8_encode(cps) ==
    IF \E i \in 1..Len(cps) : IsSurrogate(cps[i])
    THEN [ok |-> FALSE, bytes |-> <<>>]
    ELSE [ok |-> TRUE, bytes |-> utf8_bytes(cps)]

IsCont(b) == b >= 128 /\ b <= 191

\* number of bytes of the well-formed sequence starting at data[i], 0 if none
utf8_seqlen(data, i) ==
    LET b == data[i]
        n == Len(data)
        c(k) == IF i + k <= n THEN data[i + k] ELSE 0
    IN  IF b < 128 THEN 1
        ELSE IF b >= 194 /\ b <= 223 THEN (IF IsCont(c(1)) THEN 2 ELSE 0)
        ELSE IF b = 224
             THEN (IF c(1) >= 160 /\ c(1) <= 191 /\ IsCont(c(2)) THEN 3 ELSE 0)
        ELSE IF b = 237
             THEN (IF c(1) >= 128 /\ c(1) <= 159 /\ IsCont(c(2)) THEN 3 ELSE 0)
        ELSE IF b >= 225 /\ b <= 239
             THEN (IF IsCont(c(1)) /\ IsCont(c(2)) THEN 3 ELSE 0)
        ELSE IF b = 240
             THEN (IF c(1) >= 144 /\ c(1) <= 191 /\ IsCont(c(2)) /\ IsCont(c(3))
                   THEN 4 ELSE 0)
        ELSE IF b >= 241 /\ b <= 243
             THEN (IF IsCont(c(1)) /\ IsCont(c(2)) /\ IsCont(c(3)) THEN 4 ELSE 0)
        ELSE IF b = 244
             THEN (IF c(1) >= 128 /\ c(1) <= 143 /\ IsCont(c(2)) /\ IsCont(c(3))
                   THEN 4 ELSE 0)
        ELSE 0

utf8_cp(data, i, n) ==
    IF n = 1 THEN data[i]
    ELSE IF n = 2 THEN (data[i] - 192) * 64 + (data[i + 1] - 128)
    ELSE IF n = 3
         THEN (data[i] - 224) * 4096 + (data[i + 1] - 128) * 64 + (data[i + 2] - 128)
    ELSE (data[i] - 240) * 262144 + (data[i + 1] - 128) * 4096
         + (data[i + 2] - 128) * 64 + (data[i + 3] - 128)

RECURSIVE utf8_decode_from(_, _)
utf8_decode_from(data, i) ==
    IF i > Len(data) THEN [ok |-> TRUE, cps |-> <<>>]
    ELSE LET n == utf8_seqlen(data, i)
         IN  IF n = 0 THEN [ok |-> FALSE, cps |-> <<>>]
             ELSE LET rest == utf8_decode_from(data, i + n)
                  IN  IF rest.ok
                      THEN [ok |-> TRUE, cps |-> <<utf8_cp(data, i, n)>> \o rest.cps]
                      ELSE rest

\* [ok, cps]: ill-formed input raises UnicodeDecodeError
utf8_decode(data) == utf8_decode_from(data, 1)

---------------------------------------------------------------------------
(* base64.b64encode and base64.b64decode (validate=False), on str tokens. *)

PadChar == 61

\* the standard alphabet A-Z a-z 0-9 + /
B64Char(v) ==
    IF v < 26 THEN 65 + v
    ELSE IF v < 52 THEN 97 + (v - 26)
    ELSE IF v < 62 THEN 48 + (v - 52)
    ELSE IF v = 62 THEN 43 ELSE 47

\* binascii's table_a2b_base64: the 6-bit value of a character, 64 if it has none
table_a2b_base64(cp) ==
    IF cp >= 65 /\ cp <= 90 THEN cp - 65
    ELSE IF cp >= 97 /\ cp <= 122 THEN cp - 97 + 26
    ELSE IF cp >= 48 /\ cp <= 57 THEN cp - 48 + 52
    ELSE IF cp = 43 THEN 62
    ELSE IF cp = 47 THEN 63
    ELSE 64

\* the j-th character of the encoding: 3 bytes make 4 characters, the last
\* group is padded with "="
b64encode_char(data, j) ==
    LET i == 3 * ((j - 1) \div 4) + 1
        n == Len(data)
        b0 == data[i]
        b1 == IF i + 1 <= n THEN data[i + 1] ELSE 0
        b2 == IF i + 2 <= n THEN data[i + 2] ELSE 0
        pos == (j - 1) % 4
    IN  IF pos = 0 THEN B64Char(b0 \div 4)
        ELSE IF pos = 1 THEN B64Char((b0 % 4) * 16 + (b1 \div 16))
        ELSE IF pos = 2
        THEN (IF i + 1 <= n THEN B64Char((b1 % 16) * 4 + (b2 \div 64)) ELSE PadChar)
        ELSE (IF i + 2 <= n THEN B64Char(b2 % 64) ELSE PadChar)

\* base64.b64encode(token).decode("utf-8")
b64encode(data) ==
    [j \in 1..(4 * ((Len(data) + 2) \div 3)) |-> b64encode_char(data, j)]

\* binascii.a2b_base64, non-strict, one character: a character outside the
\* alphabet is skipped, a data character resets the pad count, a completed pad
\* sequence ends the parse
a2b_step(st, ch) ==
    IF st.done THEN st
    ELSE IF ch = PadChar
    THEN IF st.quad_pos >= 2 /\ st.quad_pos + st.pads + 1 >= 4
         THEN [st EXCEPT !.done = TRUE]
         ELSE IF st.quad_pos >= 2 THEN [st EXCEPT !.pads = @ + 1] ELSE st
    ELSE LET v == table_a2b_base64(ch)
         IN  IF v >= 64 THEN st
             ELSE IF st.quad_pos = 0
             THEN [st EXCEPT !.quad_pos = 1, !.leftchar = v, !.pads = 0]
             ELSE IF st.quad_pos = 1
             THEN [st EXCEPT !.quad_pos = 2, !.leftchar = v % 16, !.pads = 0,
                             !.out = Append(@, st.leftchar * 4 + (v \div 16))]
             ELSE IF st.quad_pos = 2
             THEN [st EXCEPT !.quad_pos = 3, !.leftchar = v % 4, !.pads = 0,
                             !.out = Append(@, st.leftchar * 16 + (v \div 4))]
             ELSE [st EXCEPT !.quad_pos = 0, !.leftchar = 0, !.pads = 0,
                             !.out = Append(@, st.leftchar * 64 + v)]

\* the characters s[lo..hi] in order, halving the range
RECURSIVE a2b_run(_, _, _, _)
a2b_run(s, st, lo, hi) ==
    IF lo > hi THEN st
    ELSE IF lo = hi THEN a2b_step(st, s[lo])
    ELSE LET mid == (lo + hi) \div 2
             left == a2b_run(s, st, lo, mid)
         IN  IF left.done THEN left ELSE a2b_run(s, left, mid + 1, hi)

\* an incomplete quad at the end of the input is an error (binascii.Error)
a2b_base64(s) ==
    LET st == a2b_run(s, [quad_pos |-> 0, leftchar |-> 0, pads |-> 0,
                          out |-> <<>>, done |-> FALSE], 1, Len(s))
    IN  IF st.done \/ st.quad_pos = 0
        THEN [ok |-> TRUE, data |-> st.out]
        ELSE [ok |-> FALSE, data |-> <<>>]

\* [ok, data]: a str with a non-ASCII character raises ValueError, wrong padding
\* raises binascii.Error; both are caught by decrypt's except Exception
b64decode(token) ==
    IF \E i \in 1..Len(token) : token[i] >= 128
    THEN [ok |-> FALSE, data |-> <<>>]
    ELSE a2b_base64(token)

---------------------------------------------------------------------------
(* The libraries behind src/1.py.                                          *)

\* urandom gone wrong: the bytes of the first draw handed out again
urandom_cached(n, count, r) ==
    [i \in 1..n |-> (i * 7 + n) % 256]

\* os.urandom(n): the count-th draw of the process; r is the part of the
\* outcome nobody controls.  Two draws never return the same bytes.
urandom(n, count, r) ==
    [i \in 1..n |-> (count * 53 + r * 101 + i * 7 + n) % 256]

\* derive_key gone wrong: the password left out of the derivation
derive_key_salt_only(password, salt, iterations) ==
    LET b == WSum(salt, 1, 2)
    IN  [i \in 1..KeyLen |-> (b * (i + 1) + iterations) % 256]

\* PBKDF2HMAC(SHA256, length=32, salt, iterations).derive(password.encode("utf-8")):
\* a deterministic 32-byte function of password, salt and iteration count
derive_key(password, salt, iterations) ==
    LET pw == utf8_bytes(password)
        a == WSum(pw, 3, 1)
        b == WSum(salt, 1, 2)
        c == WSum(pw, 1, 7)
    IN  [i \in 1..KeyLen |-> (a * i + b * (i + 1) + c + iterations + Len(pw)) % 256]

\* the CTR keystream byte at position i
keystream(key, nonce, i) ==
    (WSum(key, 1, 1) + WSum(nonce, 1, 2) + 7 * i) % 256

\* the 16-byte GCM tag over key, nonce and ciphertext
gcm_tag(key, nonce, ct) ==
    LET k1 == WSum(key, 1, 0)
        k2 == WSum(key, 2, 1)
        n1 == WSum(nonce, 1, 3)
        c1 == WSum(ct, 1, 5)
        c2 == WSum(ct, 3, 1)
    IN  [j \in 1..TagLen |->
            (k1 * j + k2 + n1 * (j + 2) + c1 * (2 * j + 1) + c2 + Len(ct) * j) % 256]

\* AESGCM(key).encrypt(nonce, data, None): ciphertext followed by the tag
AESGCM_encrypt(key, nonce, data) ==
    LET k0 == keystream(key, nonce, 0)
        ct == [i \in 1..Len(data) |-> (data[i] + k0 + 7 * i) % 256]
    IN  ct \o gcm_tag(key, nonce, ct)

\* AESGCM(key).decrypt(nonce, data, None): [ok, bytes]; InvalidTag when the tag
\* does not verify, and then no plaintext byte is released
AESGCM_decrypt(key, nonce, data) ==
    LET n == Len(data) - TagLen
        ct == SubSeq(data, 1, n)
        tag == SubSeq(data, n + 1, Len(data))
        k0 == keystream(key, nonce, 0)
    IN  IF n < 0 \/ tag # gcm_tag(key, nonce, ct)
        THEN [ok |-> FALSE, bytes |-> <<>>]
        ELSE [ok |-> TRUE,
              bytes |-> [i \in 1..n |-> (ct[i] + 256 * 8 - k0 - 7 * i) % 256]]

---------------------------------------------------------------------------
(* src/1.py: encrypt and decrypt.                                          *)
(* An outcome records the call's result and what the call touched on the   *)
(* way: draws of os.urandom, key derivations, cipher calls.                *)

Outcome(st, val, dr, k, c) ==
    [status |-> st, value |-> val, draws |-> dr, kdf |-> k, cipher |-> c]

\* encrypt gone wrong: nonce and salt framed in the other order
encrypt_nonce_first(password, plaintext, count, r1, r2) ==
    IF ~plaintext.isStr THEN Outcome("TypeError", <<>>, 0, 0, 0)
    ELSE LET salt == urandom(SaltLen, count, r1)
             key == derive_key(password, salt, Iterations)
             nonce == urandom(NonceLen, count + 1, r2)
             enc == utf8_encode(plaintext.cps)
         IN  IF ~enc.ok THEN Outcome("UnicodeEncodeError", <<>>, 2, 1, 0)
             ELSE LET ciphertext == AESGCM_encrypt(key, nonce, enc.bytes)
                      token == nonce \o salt \o ciphertext
                  IN  Outcome("ok", b64encode(token), 2, 1, 1)

\* encrypt(password, plaintext); count is the number of draws made before the
\* call, r1 and r2 the outcomes of its two draws
encrypt(password, plaintext, count, r1, r2) ==
    IF ~plaintext.isStr THEN Outcome("TypeError", <<>>, 0, 0, 0)
    ELSE LET salt == urandom(SaltLen, count, r1)
             key == derive_key(password, salt, Iterations)
             nonce == urandom(NonceLen, count + 1, r2)
             enc == utf8_encode(plaintext.cps)
         IN  IF ~enc.ok THEN Outcome("UnicodeEncodeError", <<>>, 2, 1, 0)
             ELSE LET ciphertext == AESGCM_encrypt(key, nonce, enc.bytes)
                      token == salt \o nonce \o ciphertext
                  IN  Outcome("ok", b64encode(token), 2, 1, 1)

\* decrypt gone wrong: the ciphertext slice starts one byte early (data[27:])
decrypt_slice_early(password, token) ==
    LET dec == b64decode(token)
        data == dec.data
    IN  IF ~dec.ok THEN Outcome("InvalidEncoding", <<>>, 0, 0, 0)
        ELSE IF Len(data) < SaltLen + NonceLen + TagLen
        THEN Outcome("TokenTooShort", <<>>, 0, 0, 0)
        ELSE LET salt == SubSeq(data, 1, SaltLen)
                 nonce == SubSeq(data, SaltLen + 1, SaltLen + NonceLen)
                 ciphertext == SubSeq(data, SaltLen + NonceLen, Len(data))
                 key == derive_key(password, salt, Iterations)
                 opened == AESGCM_decrypt(key, nonce, ciphertext)
             IN  IF ~opened.ok THEN Outcome("AuthenticationFailure", <<>>, 0, 1, 1)
                 ELSE LET txt == utf8_decode(opened.bytes)
                      IN  IF ~txt.ok THEN Outcome("UnicodeDecodeError", <<>>, 0, 1, 1)
                          ELSE Outcome("ok", txt.cps, 0, 1, 1)

\* decrypt gone wrong: the minimum length forgets the tag (16 + 12)
decrypt_min_without_tag(password, token) ==
    LET dec == b64decode(token)
        data == dec.data
    IN  IF ~dec.ok THEN Outcome("InvalidEncoding", <<>>, 0, 0, 0)
        ELSE IF Len(data) < SaltLen + NonceLen
        THEN Outcome("TokenTooShort", <<>>, 0, 0, 0)
        ELSE LET salt == SubSeq(data, 1, SaltLen)
                 nonce == SubSeq(data, SaltLen + 1, SaltLen + NonceLen)
                 ciphertext == SubSeq(data, SaltLen + NonceLen + 1, Len(data))
                 key == derive_key(password, salt, Iterations)
                 opened == AESGCM_decrypt(key, nonce, ciphertext)
             IN  IF ~opened.ok THEN Outcome("AuthenticationFailure", <<>>, 0, 1, 1)
                 ELSE LET txt == utf8_decode(opened.bytes)
                      IN  IF ~txt.ok THEN Outcome("UnicodeDecodeError", <<>>, 0, 1, 1)
                          ELSE Outcome("ok", txt.cps, 0, 1, 1)

\* decrypt(password, token).  The three ValueErrors the function raises itself
\* are named after their messages; UnicodeDecodeError is the one raised by the
\* final bytes.decode, outside the try blocks.
decrypt(password, token) ==
    LET dec == b64decode(token)
        data == dec.data
    IN  IF ~dec.ok THEN Outcome("InvalidEncoding", <<>>, 0, 0, 0)
        ELSE IF Len(data) < SaltLen + NonceLen + TagLen
        THEN Outcome("TokenTooShort", <<>>, 0, 0, 0)
        ELSE LET salt == SubSeq(data, 1, SaltLen)
                 nonce == SubSeq(data, SaltLen + 1, SaltLen + NonceLen)
                 ciphertext == SubSeq(data, SaltLen + NonceLen + 1, Len(data))
                 key == derive_key(password, salt, Iterations)
                 opened == AESGCM_decrypt(key, nonce, ciphertext)
             IN  IF ~opened.ok THEN Outcome("AuthenticationFailure", <<>>, 0, 1, 1)
                 ELSE LET txt == utf8_decode(opened.bytes)
                      IN  IF ~txt.ok THEN Outcome("UnicodeDecodeError", <<>>, 0, 1, 1)
                          ELSE Outcome("ok", txt.cps, 0, 1, 1)

---------------------------------------------------------------------------
(* Callers of encrypt and decrypt: the inputs they are given.              *)

\* "pw" and a one-character CJK password
Passwords == {<<112, 119>>, <<23494>>}

Str(cps) == [isStr |-> TRUE, cps |-> cps]
NotStr == [isStr |-> FALSE, cps |-> <<>>]

\* "", "H" followed by U+4F60 (three bytes of UTF-8), "H" followed by a lone
\* surrogate (a str with no UTF-8 encoding), and a value that is no str
Plaintexts == {Str(<<>>), Str(<<72, 20320>>), Str(<<72, 55296>>), NotStr}

NoCall ==
    [valid |-> FALSE, password |-> <<>>, plaintext |-> <<>>, token |-> <<>>,
     salt |-> <<>>, nonce |-> <<>>, first |-> 0]

NoOutcome ==
    [op |-> "none", password |-> <<>>, plaintext |-> NotStr, token |-> <<>>,
     out |-> Outcome("none", <<>>, 0, 0, 0)]

FlipByte(data, i) == [data EXCEPT ![i] = (@ + 1) % 256]

\* a token written by another program that knows the password and the format
\* but seals bytes that are not UTF-8
ForeignSalt == [i \in 1..SaltLen |-> 200 + i]
ForeignNonce == [i \in 1..NonceLen |-> 100 + i]
ForeignToken(password, bytes) ==
    b64encode(ForeignSalt \o ForeignNonce \o
              AESGCM_encrypt(derive_key(password, ForeignSalt, Iterations),
                             ForeignNonce, bytes))

\* what can be made of a token on its way back to decrypt
Variants(token) ==
    LET data == b64decode(token).data
    IN  { token,
          b64encode(FlipByte(data, 1)),                    \* salt corrupted
          b64encode(FlipByte(data, SaltLen + 1)),           \* nonce corrupted
          b64encode(FlipByte(data, SaltLen + NonceLen + 1)),\* ciphertext or tag
          b64encode(Take(data, 43)),                        \* cut to 43 bytes
          b64encode(Take(data, 44)),                        \* cut to 44 bytes
          Take(token, 2) \o <<33>> \o Drop(token, 2),       \* "!" pasted in
          token \o <<10>>,                                  \* trailing newline
          token \o <<233>>,                                 \* non-ASCII character
          Take(token, Len(token) - 1) }                     \* last character lost

TokenInputs ==
    (IF cur.valid THEN Variants(cur.token) ELSE {})
    \cup (IF prev.valid THEN {prev.token} ELSE {})
    \cup {ForeignToken(pw, <<255>>) : pw \in Passwords}
    \cup {<<33, 33, 33, 33>>}

---------------------------------------------------------------------------
(* The cryptographic core as a state machine: calls of encrypt and decrypt *)
(* in any order.  The functions keep no state; the state is the random     *)
(* source's position and what the caller holds.                            *)

NoFile == [exists |-> FALSE, valid |-> FALSE, recent_files |-> <<>>]

InitSettingsIdle ==
    recent_files = <<>> /\ file = NoFile /\ loaded = <<>> /\ added = <<>>

InitGuiIdle ==
    /\ workers = <<>> /\ txt_output = <<>> /\ lbl_status = "module not loaded"
    /\ txt_input = <<>> /\ entry_password = <<>> /\ mod = FALSE
    /\ overlap = FALSE

InitCryptoIdle ==
    rng = 0 /\ cur = NoCall /\ prev = NoCall /\ last = NoOutcome

InitCrypto == InitCryptoIdle /\ InitSettingsIdle /\ InitGuiIdle

Encrypt(password, plaintext, r1, r2) ==
    /\ rng < 2 * MaxEncrypts
    /\ LET out == encrypt(password, plaintext, rng, r1, r2)
       IN  /\ rng' = rng + out.draws
           /\ last' = [op |-> "encrypt", password |-> password,
                       plaintext |-> plaintext, token |-> <<>>, out |-> out]
           /\ IF out.status = "ok"
              THEN /\ cur' = [valid |-> TRUE, password |-> password,
                              plaintext |-> plaintext.cps, token |-> out.value,
                              salt |-> urandom(SaltLen, rng, r1),
                              nonce |-> urandom(NonceLen, rng + 1, r2),
                              first |-> rng]
                   /\ prev' = cur
              ELSE UNCHANGED <<cur, prev>>
    /\ UNCHANGED <<settingsVars, guiVars>>

Decrypt(password, token) ==
    /\ last' = [op |-> "decrypt", password |-> password, plaintext |-> NotStr,
                token |-> token, out |-> decrypt(password, token)]
    /\ UNCHANGED <<rng, cur, prev, settingsVars, guiVars>>

NextCrypto ==
    \/ \E password \in Passwords, plaintext \in Plaintexts, r \in 0..1 :
          Encrypt(password, plaintext, r, 1 - r)
    \/ \E token \in TokenInputs, password \in Passwords : Decrypt(password, token)

SpecCrypto == InitCrypto /\ [][NextCrypto]_vars

---------------------------------------------------------------------------
(* Properties of the cryptographic core, checked under SpecCrypto.         *)

\* the encrypt calls the caller still holds the tokens of
Held == {c \in {cur, prev} : c.valid}

IsDecrypt == last.op = "decrypt"
IsEncrypt == last.op = "encrypt"

\* the last call was decrypt(c.password, c.token)
DecryptOf(c) == IsDecrypt /\ last.token = c.token /\ last.password = c.password

\* C1: decrypt(P, encrypt(P, T)) succeeds and returns exactly T, for every
\* password, every text (empty and multi-byte included) and every salt and nonce
\* that encrypt drew.
C1_RoundTrip ==
    \A c \in Held :
        DecryptOf(c) => last.out.status = "ok" /\ last.out.value = c.plaintext

\* a multi-byte text has come back from decrypt
C1_Witness ==
    /\ cur.valid /\ DecryptOf(cur) /\ cur.plaintext = <<72, 20320>>
    /\ last.out.value = <<72, 20320>>

OutsideAlphabet(cp) == cp # PadChar /\ table_a2b_base64(cp) = 64

\* C3: decrypt of a token text containing a character outside the standard
\* base64 alphabet fails with InvalidEncoding and goes no further (no length
\* check, no key derivation, no cipher call, no plaintext).
C3_NonBase64Rejected ==
    (IsDecrypt /\ \E i \in 1..Len(last.token) : OutsideAlphabet(last.token[i]))
        => /\ last.out.status = "InvalidEncoding"
           /\ last.out.kdf = 0 /\ last.out.cipher = 0 /\ last.out.value = <<>>

\* C4: every decrypt failure after the framing checks (base64, length) is the
\* one kind AuthenticationFailure, recovered bytes that are not UTF-8 included.
C4_OneFailureKind ==
    (IsDecrypt /\ last.out.status \notin {"ok", "InvalidEncoding", "TokenTooShort"})
        => last.out.status = "AuthenticationFailure"

\* C5: a token that decodes to fewer than 44 bytes fails with TokenTooShort
\* before any key derivation or cipher call; one that decodes to 44 bytes or
\* more passes the length check.
C5_TokenTooShort ==
    LET dec == b64decode(last.token)
    IN  (IsDecrypt /\ dec.ok)
            => /\ (Len(dec.data) < 44) <=> (last.out.status = "TokenTooShort")
               /\ Len(dec.data) < 44 => last.out.kdf = 0 /\ last.out.cipher = 0
               /\ Len(dec.data) >= 44 => last.out.kdf = 1 /\ last.out.cipher = 1

\* a token of exactly 43 decoded bytes has been refused
C5_Witness ==
    /\ IsDecrypt /\ last.out.status = "TokenTooShort"
    /\ Len(b64decode(last.token).data) = 43

\* C6: encrypt of a plaintext that is not representable as UTF-8 text (no str,
\* or a str that cannot be encoded) fails with TypeMismatch at once: no draw of
\* random bytes, no key derivation, no cipher call.
C6_TypeMismatchFirst ==
    (IsEncrypt /\ (~last.plaintext.isStr \/ ~utf8_encode(last.plaintext.cps).ok))
        => /\ last.out.status = "TypeError"
           /\ last.out.draws = 0 /\ last.out.kdf = 0 /\ last.out.cipher = 0

\* C7: every encrypt call makes its own two draws, and the salt and nonce of its
\* token are those draws; two calls never share salt, nonce or token, also when
\* password and text are the same, and decrypt gives the same text for both.
C7_Uniqueness ==
    /\ (IsEncrypt /\ last.out.status = "ok") => last.out.draws = 2
    /\ \A c \in Held :
          LET data == b64decode(c.token).data
          IN  /\ c.first < rng /\ c.first + 1 < rng
              /\ \E r \in 0..1 : SubSeq(data, 1, 16) = urandom(16, c.first, r)
              /\ \E r \in 0..1 : SubSeq(data, 17, 28) = urandom(12, c.first + 1, r)
    /\ (cur.valid /\ prev.valid)
          => /\ cur.token # prev.token
             /\ cur.salt # prev.salt
             /\ cur.nonce # prev.nonce
             /\ cur.first >= prev.first + 2
    /\ \A c \in Held : DecryptOf(c) => last.out.value = c.plaintext

\* two calls with the same password and text, and the older token decrypted
C7_Witness ==
    /\ cur.valid /\ prev.valid
    /\ cur.password = prev.password /\ cur.plaintext = prev.plaintext
    /\ cur.token # prev.token
    /\ DecryptOf(prev) /\ last.out.value = cur.plaintext

\* C8: the decoded token is salt (bytes 0..15), nonce (bytes 16..27), then
\* ciphertext and tag, 44 + len(utf8(T)) bytes in all; decrypt reads salt and
\* nonce from those positions, so the token of the empty text is exactly 44
\* bytes and comes back as the empty text.
C8_Framing ==
    \A c \in Held :
        LET dec == b64decode(c.token)
            data == dec.data
            body == utf8_bytes(c.plaintext)
        IN  /\ dec.ok
            /\ Len(data) = 44 + Len(body)
            /\ SubSeq(data, 1, 16) = c.salt
            /\ SubSeq(data, 17, 28) = c.nonce
            /\ SubSeq(data, 29, Len(data)) =
                   AESGCM_encrypt(derive_key(c.password, c.salt, Iterations),
                                  c.nonce, body)
            /\ (c.plaintext = <<>>) => Len(data) = 44
            /\ (DecryptOf(c) /\ c.plaintext = <<>>)
                   => last.out.status = "ok" /\ last.out.value = <<>>

\* the token of the empty text, 44 bytes, has come back as the empty text
C8_Witness ==
    /\ cur.valid /\ cur.plaintext = <<>> /\ DecryptOf(cur)
    /\ Len(b64decode(cur.token).data) = 44
    /\ last.out.status = "ok" /\ last.out.value = <<>>

---------------------------------------------------------------------------
(* src/gui.py: Settings and its recent-files list.                         *)

RECURSIVE Dedup(_)
\* list(dict.fromkeys(xs)): the first occurrence of each element, in order
Dedup(xs) ==
    IF xs = <<>> THEN <<>>
    ELSE LET rest == Dedup(SubSeq(xs, 1, Len(xs) - 1))
             x == xs[Len(xs)]
         IN  IF x \in Range(rest) THEN rest ELSE Append(rest, x)

\* list.remove(x): the list without the first occurrence of x
Remove(xs, x) ==
    LET i == CHOOSE k \in 1..Len(xs) : xs[k] = x /\ \A j \in 1..(k - 1) : xs[j] # x
    IN  SubSeq(xs, 1, i - 1) \o SubSeq(xs, i + 1, Len(xs))

\* Settings.load: recent_files after construction.  No file keeps the default;
\* a file that is no JSON object, or whose recent_files cannot be iterated and
\* hashed, raises inside the try and resets to the default.
load(f) ==
    IF ~f.exists THEN <<>>
    ELSE IF ~f.valid THEN <<>>
    ELSE Take(Dedup(f.recent_files), max_recent)

\* Settings.save: the file after the call.  io is what the file system does:
\* the write succeeds, open() fails (file untouched), or the write fails after
\* open() truncated the file.  No exception leaves save.
save(recent, f, io) ==
    IF io = "ok"
    THEN [exists |-> TRUE, valid |-> TRUE, recent_files |-> Take(recent, max_recent)]
    ELSE IF io = "open_failed" THEN f
    ELSE [exists |-> TRUE, valid |-> FALSE, recent_files |-> <<>>]

\* add_recent gone wrong: the path is not removed before it is put in front
add_recent_no_remove(recent, filepath) ==
    IF filepath = "" THEN recent
    ELSE Take(<<filepath>> \o recent, max_recent)

\* Settings.add_recent, the list: recent_files after add_recent(filepath)
add_recent(recent, filepath) ==
    IF filepath = "" THEN recent
    ELSE LET removed == IF filepath \in Range(recent)
                        THEN Remove(recent, filepath) ELSE recent
         IN  Take(<<filepath>> \o removed, max_recent)

\* what .gui_settings.json may hold when the program starts
TenPaths == <<"/a", "/b", "/c", "/d", "/e", "/f", "/g", "/h", "/i", "/j">>
SettingsFiles ==
    { NoFile,
      [exists |-> TRUE, valid |-> FALSE, recent_files |-> <<>>],
      [exists |-> TRUE, valid |-> TRUE, recent_files |-> <<>>],
      [exists |-> TRUE, valid |-> TRUE, recent_files |-> <<"/a", "/b", "/a", "", "/b">>],
      [exists |-> TRUE, valid |-> TRUE, recent_files |-> Take(TenPaths, max_recent)],
      [exists |-> TRUE, valid |-> TRUE, recent_files |-> TenPaths] }

\* paths given to add_recent: the empty path, the head of a full list, its last
\* entry, an entry load cut off, and a new one
AddPaths == {"", "/a", "/h", "/i", "/k"}

InitSettings ==
    /\ file \in SettingsFiles
    /\ recent_files = load(file)
    /\ loaded = recent_files
    /\ added = <<>>
    /\ InitCryptoIdle /\ InitGuiIdle

\* Settings.add_recent(filepath), with the save it ends with
AddRecent(filepath, io) ==
    /\ Len(added) < MaxAdds
    /\ recent_files' = add_recent(recent_files, filepath)
    /\ file' = IF filepath = "" THEN file ELSE save(recent_files', file, io)
    /\ added' = <<filepath>> \o added
    /\ UNCHANGED <<loaded, cryptoVars, guiVars>>

NextSettings ==
    \E filepath \in AddPaths, io \in {"ok", "open_failed", "write_failed"} :
        AddRecent(filepath, io)

SpecSettings == InitSettings /\ [][NextSettings]_vars

NoDuplicates(xs) == \A i, j \in 1..Len(xs) : i # j => xs[i] # xs[j]

NonEmptyPath(p) == p # ""

\* the non-empty paths added so far, newest first
Added == SelectSeq(added, NonEmptyPath)

\* C10: after any sequence of add_recent calls on an empty or loaded Settings the
\* list has no duplicate, at most 8 entries, the most recently added non-empty
\* path at index 0 and the rest in most-recent-first order (added paths newest
\* first, then what was loaded, in its order); an empty path changes nothing.
C10_RecentFiles ==
    /\ NoDuplicates(recent_files)
    /\ Len(recent_files) <= 8
    /\ Added # <<>> => recent_files[1] = Added[1]
    /\ recent_files = Take(Dedup(Added \o loaded), 8)

\* a full loaded list, a new path and a listed path added, then the empty path
C10_Witness ==
    /\ Len(loaded) = 8 /\ Len(added) = 3 /\ added[1] = ""
    /\ added[2] = "/h" /\ added[3] = "/k"
    /\ recent_files = <<"/h", "/k", "/a", "/b", "/c", "/d", "/e", "/f">>

---------------------------------------------------------------------------
(* src/gui.py: CryptoGUI, the encrypt and decrypt buttons.  Each click      *)
(* starts a thread running work(); the threads share txt_output and         *)
(* lbl_status and take no lock, so their widget calls interleave freely.    *)

IsSpace(cp) == cp \in {9, 10, 11, 12, 13, 32}

RECURSIVE rstrip_newline(_)
\* str.rstrip('\n')
rstrip_newline(t) ==
    IF t # <<>> /\ t[Len(t)] = 10 THEN rstrip_newline(SubSeq(t, 1, Len(t) - 1)) ELSE t

RECURSIVE rstrip(_)
rstrip(t) ==
    IF t # <<>> /\ IsSpace(t[Len(t)]) THEN rstrip(SubSeq(t, 1, Len(t) - 1)) ELSE t

RECURSIVE lstrip(_)
lstrip(t) == IF t # <<>> /\ IsSpace(t[1]) THEN lstrip(Tail(t)) ELSE t

\* str.strip()
strip(t) == lstrip(rstrip(t))

\* Text.get(1.0, tk.END): the content and the newline Tk ends every text with
text_get(content) == content \o <<10>>

\* a token of "H" + U+4F60 under the password "pw", made in an earlier session
OldToken == ForeignToken(<<112, 119>>, utf8_bytes(<<72, 20320>>))

\* what the user may have in the input box: a text, a token followed by a
\* blank line, and a token with its last character lost
InputTexts == {<<72, 20320>>, OldToken \o <<10>>, Take(OldToken, Len(OldToken) - 1)}

SuccessText(kind) == IF kind = "encrypt" THEN "encrypt ok" ELSE "decrypt ok"
FailureText(kind) == IF kind = "encrypt" THEN "encrypt failed" ELSE "decrypt failed"

InitGui ==
    /\ workers = <<>> /\ txt_output = <<>>
    /\ mod \in BOOLEAN
    /\ lbl_status = IF mod THEN "module loaded" ELSE "module not loaded"
    /\ txt_input = <<>> /\ entry_password = <<>>
    /\ overlap = FALSE
    /\ InitCryptoIdle /\ InitSettingsIdle

\* the user types a password or pastes a text
TypePassword(password) ==
    /\ entry_password' = password
    /\ UNCHANGED <<workers, txt_output, lbl_status, txt_input, mod, overlap,
                   cryptoVars, settingsVars>>

TypeInput(text) ==
    /\ txt_input' = text
    /\ UNCHANGED <<workers, txt_output, lbl_status, entry_password, mod, overlap,
                   cryptoVars, settingsVars>>

Running == {w \in 1..Len(workers) : workers[w].pc # "done"}

StartWorker(kind, input) ==
    /\ workers' = Append(workers, [kind |-> kind, pc |-> "call",
                                   password |-> entry_password, input |-> input,
                                   out |-> Outcome("none", <<>>, 0, 0, 0)])
    /\ overlap' = (overlap \/ Running # {})

\* CryptoGUI._run_encrypt: without module or password a warning and nothing
\* else; otherwise the input is read and the thread started
run_encrypt ==
    /\ Len(workers) < MaxWorkers
    /\ IF ~mod \/ entry_password = <<>>
       THEN UNCHANGED <<workers, overlap>>
       ELSE StartWorker("encrypt", rstrip_newline(text_get(txt_input)))
    /\ UNCHANGED <<txt_output, lbl_status, txt_input, entry_password, mod,
                   cryptoVars, settingsVars>>

\* CryptoGUI._run_decrypt
run_decrypt ==
    /\ Len(workers) < MaxWorkers
    /\ IF ~mod \/ entry_password = <<>>
       THEN UNCHANGED <<workers, overlap>>
       ELSE StartWorker("decrypt", strip(text_get(txt_input)))
    /\ UNCHANGED <<txt_output, lbl_status, txt_input, entry_password, mod,
                   cryptoVars, settingsVars>>

\* work(), first statement: self.mod.encrypt / self.mod.decrypt
WorkCall(w, r) ==
    /\ workers[w].pc = "call"
    /\ LET me == workers[w]
           out == IF me.kind = "encrypt"
                  THEN encrypt(me.password, Str(me.input), rng, r, 1 - r)
                  ELSE decrypt(me.password, me.input)
       IN  /\ rng' = rng + out.draws
           /\ workers' = [workers EXCEPT ![w].out = out,
                              ![w].pc = IF out.status = "ok" THEN "delete" ELSE "except"]
    /\ UNCHANGED <<cur, prev, last, txt_output, lbl_status, txt_input,
                   entry_password, mod, overlap, settingsVars>>

\* self.txt_output.delete(1.0, tk.END)
WorkDelete(w) ==
    /\ workers[w].pc = "delete"
    /\ txt_output' = <<>>
    /\ workers' = [workers EXCEPT ![w].pc = "insert"]
    /\ UNCHANGED <<lbl_status, txt_input, entry_password, mod, overlap,
                   cryptoVars, settingsVars>>

\* self.txt_output.insert(tk.END, result)
WorkInsert(w) ==
    /\ workers[w].pc = "insert"
    /\ txt_output' = txt_output \o workers[w].out.value
    /\ workers' = [workers EXCEPT ![w].pc = "config"]
    /\ UNCHANGED <<lbl_status, txt_input, entry_password, mod, overlap,
                   cryptoVars, settingsVars>>

\* self.lbl_status.config(text=success)
WorkConfig(w) ==
    /\ workers[w].pc = "config"
    /\ lbl_status' = SuccessText(workers[w].kind)
    /\ workers' = [workers EXCEPT ![w].pc = "done"]
    /\ UNCHANGED <<txt_output, txt_input, entry_password, mod, overlap,
                   cryptoVars, settingsVars>>

\* except Exception: self.lbl_status.config(text=failure); messagebox.showerror
WorkExcept(w) ==
    /\ workers[w].pc = "except"
    /\ lbl_status' = FailureText(workers[w].kind)
    /\ workers' = [workers EXCEPT ![w].pc = "done"]
    /\ UNCHANGED <<txt_output, txt_input, entry_password, mod, overlap,
                   cryptoVars, settingsVars>>

NextGui ==
    \/ \E password \in {<<>>, <<112, 119>>} : TypePassword(password)
    \/ \E text \in InputTexts : TypeInput(text)
    \/ run_encrypt
    \/ run_decrypt
    \/ \E w \in 1..Len(workers), r \in 0..1 : WorkCall(w, r)
    \/ \E w \in 1..Len(workers) : WorkDelete(w)
    \/ \E w \in 1..Len(workers) : WorkInsert(w)
    \/ \E w \in 1..Len(workers) : WorkConfig(w)
    \/ \E w \in 1..Len(workers) : WorkExcept(w)

SpecGui == InitGui /\ [][NextGui]_vars

AllDone == Len(workers) >= 2 /\ \A w \in 1..Len(workers) : workers[w].pc = "done"

\* C9: when a second encrypt or decrypt is started before the first worker has
\* finished, then once both have finished the output box holds exactly the
\* result of one of them (never both results one after the other) and the
\* status label is that operation's.  Stated for the runs in which every
\* operation succeeded.
C9_OneResultShown ==
    (overlap /\ AllDone /\ \A w \in 1..Len(workers) : workers[w].out.status = "ok")
        => \E w \in 1..Len(workers) :
               /\ txt_output = workers[w].out.value
               /\ lbl_status = SuccessText(workers[w].kind)

===========================================================================
